---- MODULE Spec2Model ----
(***************************************************************************)
(* Model of assign_2.py, the Multi-Agent Travel Planner: the tool logger   *)
(* slot, the log redactor, the internet_search tool, the Planner ->        *)
(* Reviewer request handler with its session history, and the reviewer     *)
(* output parser.                                                          *)
(*                                                                         *)
(* Python strings are TLA+ strings; Len, \o and SubSeq act on them         *)
(* character by character.  Two characters of the source that are not      *)
(* ASCII are written with one-character stand-ins: the ellipsis U+2026 is  *)
(* "~", and the arrow of the trace annotation is written "->".             *)
(***************************************************************************)
EXTENDS Integers, Sequences, FiniteSets, TLC

(***************************************************************************)
(* Python string primitives used by the source.                            *)
(***************************************************************************)

\* s[:n]
Take(s, n) == IF Len(s) <= n THEN s ELSE SubSeq(s, 1, n)

\* s[n:]  (n characters dropped)
Drop(s, n) == IF Len(s) <= n THEN "" ELSE SubSeq(s, n + 1, Len(s))

\* s.startswith(p)
StartsWith(s, p) == Len(p) <= Len(s) /\ SubSeq(s, 1, Len(p)) = p

\* s.endswith(p)
EndsWith(s, p) == Len(p) <= Len(s) /\ SubSeq(s, Len(s) - Len(p) + 1, Len(s)) = p

\* sub occurs in s at index i (1-based)
OccursAt(s, sub, i) ==
    /\ i >= 1
    /\ i + Len(sub) - 1 <= Len(s)
    /\ SubSeq(s, i, i + Len(sub) - 1) = sub

\* sub in s
Contains(s, sub) == \E i \in 1..(Len(s) - Len(sub) + 1) : OccursAt(s, sub, i)

\* s.find(sub) as a 1-based index, 0 when absent
Find(s, sub) ==
    IF Contains(s, sub)
    THEN CHOOSE i \in 1..(Len(s) - Len(sub) + 1) :
            /\ OccursAt(s, sub, i)
            /\ \A j \in 1..(i - 1) : ~OccursAt(s, sub, j)
    ELSE 0

\* s.split(sep): the pieces between the non-overlapping occurrences of sep,
\* found left to right
RECURSIVE Split(_, _)
Split(s, sep) ==
    IF ~Contains(s, sep)
    THEN <<s>>
    ELSE LET i == Find(s, sep)
         IN  <<Take(s, i - 1)>> \o Split(Drop(s, i - 1 + Len(sep)), sep)

\* s.replace(old, ""): every non-overlapping occurrence removed, left to right
RECURSIVE Remove(_, _)
Remove(s, old) ==
    IF ~Contains(s, old)
    THEN s
    ELSE LET i == Find(s, old)
         IN  Take(s, i - 1) \o Remove(Drop(s, i - 1 + Len(old)), old)

Whitespace == {" ", "\n", "\t"}

RECURSIVE LStrip(_)
LStrip(s) ==
    IF Len(s) > 0 /\ SubSeq(s, 1, 1) \in Whitespace THEN LStrip(Drop(s, 1)) ELSE s

RECURSIVE RStrip(_)
RStrip(s) ==
    IF Len(s) > 0 /\ SubSeq(s, Len(s), Len(s)) \in Whitespace
    THEN RStrip(Take(s, Len(s) - 1))
    ELSE s

\* s.strip()
Strip(s) == RStrip(LStrip(s))

\* c.lower() for one character
LowerChar(c) ==
    CASE c = "A" -> "a" [] c = "B" -> "b" [] c = "C" -> "c" [] c = "D" -> "d"
      [] c = "E" -> "e" [] c = "F" -> "f" [] c = "G" -> "g" [] c = "H" -> "h"
      [] c = "I" -> "i" [] c = "J" -> "j" [] c = "K" -> "k" [] c = "L" -> "l"
      [] c = "M" -> "m" [] c = "N" -> "n" [] c = "O" -> "o" [] c = "P" -> "p"
      [] c = "Q" -> "q" [] c = "R" -> "r" [] c = "S" -> "s" [] c = "T" -> "t"
      [] c = "U" -> "u" [] c = "V" -> "v" [] c = "W" -> "w" [] c = "X" -> "x"
      [] c = "Y" -> "y" [] c = "Z" -> "z"
      [] OTHER -> c

\* s.lower()
RECURSIVE Lower(_)
Lower(s) ==
    IF Len(s) = 0 THEN ""
    ELSE IF Len(s) = 1 THEN LowerChar(s)
    ELSE LET h == Len(s) \div 2
         IN  Lower(Take(s, h)) \o Lower(Drop(s, h))

(***************************************************************************)
(* redact_for_logs, the string branch (the only one the tool uses).        *)
(***************************************************************************)

RedactLimit == 300
RedactKeep == 120
TruncationMarker == "~ [truncated]"
Redacted == "[redacted]"
SensitiveWords == {"api_key", "token", "secret", "password"}

IsSensitive(value) == \E k \in SensitiveWords : Contains(Lower(value), k)

\* a slip that truncates without appending the marker
redact_for_logs_nomarker(value) ==
    IF IsSensitive(value) THEN Redacted
    ELSE IF Len(value) <= RedactLimit THEN value
    ELSE Take(value, RedactKeep)

redact_for_logs(value) ==
    IF IsSensitive(value) THEN Redacted
    ELSE IF Len(value) <= RedactLimit THEN value
    ELSE Take(value, RedactKeep) \o TruncationMarker


(***************************************************************************)
(* State.                                                                  *)
(*                                                                         *)
(* A Python Optional is a sequence of length at most one: None is <<>>,    *)
(* and a value v is <<v>>.                                                 *)
(***************************************************************************)

None == <<>>
Some(v) == <<v>>

VARIABLES
    TOOL_LOGGER,   \* the global logger slot: None or Some([req, kind])
    tool_events,   \* the events the installed logger has been called with
    toolpc,        \* position inside internet_search
    query,         \* internet_search's argument
    emitted,       \* the events this invocation has passed to log_tool_event
    tool_ret,      \* the invocation's return value, None until it returns
    tool_exc,      \* the exception in flight inside the invocation, or None
    api_key,       \* Some(os.getenv("TAVILY_API_KEY")) once the invocation read it
    response,      \* Some(what client.search did) once the invocation called it
    nsearch,       \* tool invocations since the logger was installed
    pc,            \* position inside the request handler
    req,           \* number of requests handled so far in this process
    messages,      \* st.session_state.messages
    meta,          \* st.session_state.meta
    calls,         \* the agent invocations of the current turn, in order
    plan_text,     \* the Planner's extracted output in the current turn
    fault,         \* which call, if any, threw in the current turn
    value,         \* redactor check: the input string
    redacted,      \* redactor check: redact_for_logs(value), None before the call
    review_text,   \* parser check: the input text
    parsed,        \* parser check: parse_reviewer_output(review_text), or None
    runner_result, \* extraction check: the object Runner.run returned
    extracted      \* extraction check: extract_text(runner_result), None before the call

toolVars == <<toolpc, query, emitted, tool_ret, tool_exc, api_key, response>>
handlerVars == <<pc, req, messages, meta, calls, plan_text, fault>>
pureVars == <<value, redacted, review_text, parsed, runner_result, extracted>>
vars == <<TOOL_LOGGER, tool_events, nsearch, toolVars, handlerVars, pureVars>>

(***************************************************************************)
(* The logger slot.                                                        *)
(***************************************************************************)

\* A logger is [req |-> the request that created it, kind |-> "ok" or
\* "raises"]; a "raises" logger raises on every call, after recording it.
Logger(r, k) == [req |-> r, kind |-> k]
LoggerKinds == {"ok", "raises"}

\* TOOL_LOGGER(event): the logger records the event; whether it then raises
CallLogger(logger, sink, event) ==
    [sink |-> Append(sink, event), raised |-> logger.kind = "raises"]

\* a slip that lets the logger's exception out
log_tool_event_unguarded(logger, sink, event) ==
    IF logger # None
    THEN CallLogger(logger[1], sink, event)
    ELSE [sink |-> sink, raised |-> FALSE]

\* log_tool_event(event) with the slot holding `logger`: the logger's new
\* record of calls, and whether an exception leaves log_tool_event
log_tool_event(logger, sink, event) ==
    IF logger # None
    THEN LET r == CallLogger(logger[1], sink, event)
         IN  [sink |-> r.sink, raised |-> FALSE]
    ELSE [sink |-> sink, raised |-> FALSE]

(***************************************************************************)
(* internet_search.                                                        *)
(***************************************************************************)

ToolName == "internet_search"
CallEvent(q) == [type |-> "call", tool |-> ToolName, args |-> redact_for_logs(q)]
ResultEvent(p) == [type |-> "result", tool |-> ToolName, preview |-> p]
ErrorEvent(m) == [type |-> "error", tool |-> ToolName, error |-> m]
EndEvent == [type |-> "end", tool |-> ToolName]

MissingKeyMsg == "missing TAVILY_API_KEY in environment."
SearchErrorPrefix == "Search error: "
InvalidKeyPrefix ==
    "Search error: Invalid Tavily API key. Please check your TAVILY_API_KEY in the .env file. Error: "
NoResults == "No results found."
NA == "N/A"
PreviewLimit == 400
MaxResults == 3

\* it.get(name, 'N/A')
GetOr(field, default) == IF field = None THEN default ELSE field[1]

\* f"- {it.get('title', 'N/A')}: {it.get('content', 'N/A')}"
FormatLine(it) == "- " \o GetOr(it.title, NA) \o ": " \o GetOr(it.content, NA)

\* "\n".join(lines)
RECURSIVE JoinLines(_)
JoinLines(lines) ==
    IF Len(lines) = 0 THEN ""
    ELSE IF Len(lines) = 1 THEN lines[1]
    ELSE lines[1] \o "\n" \o JoinLines(Tail(lines))

\* lines 107-109
FormatOutput(items) ==
    IF Len(items) = 0
    THEN NoResults
    ELSE JoinLines([i \in 1..Len(items) |-> FormatLine(items[i])])

\* line 114
Preview(output) ==
    redact_for_logs(Take(output, PreviewLimit)
                    \o (IF Len(output) > PreviewLimit THEN "~" ELSE ""))

\* a slip that drops the prefix from the friendlier message
ErrorReturn_noprefix(error_msg) ==
    IF Contains(error_msg, "API key") \/ Contains(error_msg, "Unauthorized")
    THEN "Invalid Tavily API key. Please check your TAVILY_API_KEY. Error: " \o error_msg
    ELSE SearchErrorPrefix \o error_msg

\* lines 122-124
ErrorReturn(error_msg) ==
    IF Contains(error_msg, "API key") \/ Contains(error_msg, "Unauthorized")
    THEN InvalidKeyPrefix \o error_msg
    ELSE SearchErrorPrefix \o error_msg

\* a slip that tests `api_key is None` only
Falsy_noneonly(opt) == opt = None

\* `not api_key`: None and the empty string are both falsy
Falsy(opt) == opt = None \/ opt[1] = ""


(***************************************************************************)
(* Inputs of the tool.                                                     *)
(***************************************************************************)

MaxSearches == 2

Queries == {"hotel price", "my Token is abc"}

\* os.getenv("TAVILY_API_KEY"): unset, empty, or a key
ApiKeys == {None, Some(""), Some("tvly-k")}

Items == {[title |-> Some("Louvre"), content |-> Some("open 9-18")],
          [title |-> None, content |-> Some("15 EUR")]}

ItemLists == UNION {[1..n -> Items] : n \in 0..MaxResults}

\* what client.search does: returns a response, or raises
ProviderOutcomes ==
    {[kind |-> "results", items |-> l, msg |-> ""] : l \in ItemLists}
    \cup {[kind |-> "raises", items |-> <<>>, msg |-> m] :
             m \in {"timed out", "Unauthorized: missing or invalid API key."}}

(***************************************************************************)
(* internet_search, one action per log_tool_event call it makes.           *)
(***************************************************************************)

\* line 91: the call event, emitted before the try block is entered
InvokeSearch(q) ==
    /\ toolpc = "idle"
    /\ nsearch < MaxSearches
    /\ LET ev == CallEvent(q)
           r == log_tool_event(TOOL_LOGGER, tool_events, ev)
       IN  /\ tool_events' = r.sink
           /\ emitted' = <<ev>>
           /\ toolpc' = IF r.raised THEN "raised" ELSE "try"
           /\ tool_exc' = IF r.raised THEN Some("logger") ELSE None
    /\ query' = q
    /\ tool_ret' = None
    /\ api_key' = None
    /\ response' = None
    /\ nsearch' = nsearch + 1
    /\ UNCHANGED <<TOOL_LOGGER, handlerVars, pureVars>>

\* lines 93-116: the try block
SearchTry(key, provider) ==
    /\ toolpc = "try"
    /\ api_key' = Some(key)
    /\ IF Falsy(key)
       THEN LET ev == ErrorEvent(MissingKeyMsg)
                r == log_tool_event(TOOL_LOGGER, tool_events, ev)
            IN  /\ tool_events' = r.sink
                /\ emitted' = Append(emitted, ev)
                /\ response' = None
                /\ IF r.raised
                   THEN /\ toolpc' = "except"
                        /\ tool_exc' = Some("logger")
                        /\ tool_ret' = None
                   ELSE /\ toolpc' = "finally"
                        /\ tool_exc' = None
                        /\ tool_ret' = Some(SearchErrorPrefix \o MissingKeyMsg)
       ELSE /\ response' = Some(provider)
            /\ IF provider.kind = "raises"
               THEN /\ toolpc' = "except"
                    /\ tool_exc' = Some(provider.msg)
                    /\ tool_ret' = None
                    /\ UNCHANGED <<tool_events, emitted>>
               ELSE LET output == FormatOutput(provider.items)
                        ev == ResultEvent(Preview(output))
                        r == log_tool_event(TOOL_LOGGER, tool_events, ev)
                    IN  /\ tool_events' = r.sink
                        /\ emitted' = Append(emitted, ev)
                        /\ IF r.raised
                           THEN /\ toolpc' = "except"
                                /\ tool_exc' = Some("logger")
                                /\ tool_ret' = None
                           ELSE /\ toolpc' = "finally"
                                /\ tool_exc' = None
                                /\ tool_ret' = Some(output)
    /\ UNCHANGED <<TOOL_LOGGER, nsearch, query, handlerVars, pureVars>>

\* a slip that emits the end event on the normal path only: the except
\* clause returns without it
SearchExcept_noend ==
    /\ toolpc = "except"
    /\ LET error_msg == tool_exc[1]
           ev == ErrorEvent(error_msg)
           r == log_tool_event(TOOL_LOGGER, tool_events, ev)
       IN  /\ tool_events' = r.sink
           /\ emitted' = Append(emitted, ev)
           /\ tool_exc' = None
           /\ tool_ret' = Some(ErrorReturn(error_msg))
    /\ toolpc' = "returned"
    /\ UNCHANGED <<TOOL_LOGGER, nsearch, query, api_key, response, handlerVars, pureVars>>

\* lines 118-124: except Exception as e
SearchExcept ==
    /\ toolpc = "except"
    /\ LET error_msg == tool_exc[1]
           ev == ErrorEvent(error_msg)
           r == log_tool_event(TOOL_LOGGER, tool_events, ev)
       IN  /\ tool_events' = r.sink
           /\ emitted' = Append(emitted, ev)
           /\ IF r.raised
              THEN /\ tool_exc' = Some("logger")
                   /\ tool_ret' = None
              ELSE /\ tool_exc' = None
                   /\ tool_ret' = Some(ErrorReturn(error_msg))
    /\ toolpc' = "finally"
    /\ UNCHANGED <<TOOL_LOGGER, nsearch, query, api_key, response, handlerVars, pureVars>>

\* lines 126-127: finally; afterwards the function returns tool_ret, or the
\* exception in flight leaves it
SearchFinally ==
    /\ toolpc = "finally"
    /\ LET r == log_tool_event(TOOL_LOGGER, tool_events, EndEvent)
       IN  /\ tool_events' = r.sink
           /\ emitted' = Append(emitted, EndEvent)
           /\ IF r.raised \/ tool_exc # None
              THEN /\ toolpc' = "raised"
                   /\ tool_exc' = IF r.raised THEN Some("logger") ELSE tool_exc
                   /\ tool_ret' = None
              ELSE /\ toolpc' = "returned"
                   /\ UNCHANGED <<tool_exc, tool_ret>>
    /\ UNCHANGED <<TOOL_LOGGER, nsearch, query, api_key, response, handlerVars, pureVars>>

\* the caller takes the tool's result; the invocation is over
SearchDone ==
    /\ toolpc \in {"returned", "raised"}
    /\ toolpc' = "idle"
    /\ emitted' = <<>>
    /\ tool_ret' = None
    /\ tool_exc' = None
    /\ api_key' = None
    /\ response' = None
    /\ UNCHANGED <<TOOL_LOGGER, tool_events, nsearch, query, handlerVars, pureVars>>

\* one step of an invocation whose query, credential and provider behaviour
\* come from the given sets
ToolStep(queries, keys, outcomes) ==
    \/ \E q \in queries : InvokeSearch(q)
    \/ \E k \in keys, p \in outcomes : SearchTry(k, p)
    \/ SearchExcept
    \/ SearchFinally
    \/ SearchDone

(***************************************************************************)
(* The tool and the logger slot on their own: any caller may install a     *)
(* logger or none, and invoke the tool.                                    *)
(***************************************************************************)

\* lines 36-39
set_tool_logger(logger) ==
    /\ TOOL_LOGGER' = logger

InstallLogger(logger) ==
    /\ toolpc = "idle"
    /\ set_tool_logger(logger)
    /\ tool_events' = <<>>
    /\ nsearch' = 0
    /\ UNCHANGED <<toolVars, handlerVars, pureVars>>

InitHandler ==
    /\ pc = "idle"
    /\ req = 0
    /\ messages = <<>>
    /\ meta = <<>>
    /\ calls = <<>>
    /\ plan_text = None
    /\ fault = None

InitTool ==
    /\ TOOL_LOGGER = None
    /\ tool_events = <<>>
    /\ nsearch = 0
    /\ toolpc = "idle"
    /\ query = ""
    /\ emitted = <<>>
    /\ tool_ret = None
    /\ tool_exc = None
    /\ api_key = None
    /\ response = None

\* no Runner result under check
NoResult == [final_output |-> None, text |-> None, str |-> ""]

InitPure ==
    /\ value = ""
    /\ redacted = None
    /\ review_text = ""
    /\ parsed = None
    /\ runner_result = NoResult
    /\ extracted = None

ToolInit == InitTool /\ InitHandler /\ InitPure

ToolNext ==
    \/ \E l \in {None} \cup {Some(Logger(0, k)) : k \in LoggerKinds} : InstallLogger(l)
    \/ ToolStep(Queries, ApiKeys, ProviderOutcomes)

SpecTool == ToolInit /\ [][ToolNext]_vars


(***************************************************************************)
(* Properties of internet_search and the logger slot.                      *)
(***************************************************************************)

\* the number of events of one type in a sequence of events
Count(evs, t) == Cardinality({i \in DOMAIN evs : evs[i].type = t})

InvocationOver == toolpc \in {"returned", "raised"}
InvocationRunning == toolpc \in {"try", "except", "finally"}

NoKey == api_key # None /\ (api_key[1] = None \/ api_key[1] = Some(""))
ProviderRaised == response # None /\ response[1].kind = "raises"
ProviderReturned == response # None /\ response[1].kind = "results"

\* C1: every invocation of internet_search, whatever its outcome, emits
\* exactly one end event, and that event is the last one it emits: it comes
\* after the call event and after any result or error event, and no end
\* event is emitted while the invocation is still running.
C1_EndOnceAndLast ==
    /\ InvocationOver =>
          /\ Len(emitted) >= 2
          /\ emitted[1].type = "call"
          /\ emitted[Len(emitted)] = EndEvent
          /\ Count(emitted, "end") = 1
    /\ InvocationRunning => Count(emitted, "end") = 0

\* an invocation whose provider call raised is over, its error event
\* followed by the end event
C1_Witness ==
    /\ toolpc = "returned"
    /\ ProviderRaised
    /\ Len(emitted) = 3
    /\ emitted[2].type = "error"
    /\ emitted[3].type = "end"

\* C2: invoked with no TAVILY_API_KEY (unset or empty), internet_search
\* never performs the provider call, and once over it has returned a string
\* starting with "Search error:" and emitted exactly one call, one error,
\* one end and no result event.
C2_NoCredential ==
    NoKey =>
       /\ response = None
       /\ toolpc # "raised"
       /\ toolpc = "returned" =>
             /\ tool_ret # None
             /\ StartsWith(tool_ret[1], "Search error:")
             /\ Count(emitted, "call") = 1
             /\ Count(emitted, "error") = 1
             /\ Count(emitted, "end") = 1
             /\ Count(emitted, "result") = 0

\* an invocation that found the variable set but empty has returned
C2_Witness ==
    /\ toolpc = "returned"
    /\ api_key = Some(Some(""))
    /\ tool_ret = Some("Search error: missing TAVILY_API_KEY in environment.")

\* C7: when client.search raises, nothing is raised across the tool
\* boundary: the invocation emits an error event carrying the failure
\* message and no result event, and returns a string beginning with
\* "Search error:".
C7_ProviderFailureReturned ==
    ProviderRaised =>
       /\ toolpc # "raised"
       /\ Count(emitted, "result") = 0
       /\ toolpc \in {"finally", "returned"} =>
             /\ \E i \in DOMAIN emitted : emitted[i] = ErrorEvent(response[1].msg)
             /\ tool_ret # None
             /\ StartsWith(tool_ret[1], "Search error:")

\* an invocation whose provider call raised an authorization failure has
\* returned the friendlier message
C7_Witness ==
    /\ toolpc = "returned"
    /\ ProviderRaised
    /\ Contains(response[1].msg, "Unauthorized")
    /\ StartsWith(tool_ret[1], "Search error: Invalid Tavily API key.")

RaisingLoggerInstalled == TOOL_LOGGER # None /\ TOOL_LOGGER[1].kind = "raises"

\* the last n elements of a sequence
LastN(seq, n) == SubSeq(seq, Len(seq) - n + 1, Len(seq))

\* C8: with a logger installed that raises on every call, no exception
\* leaves log_tool_event: the tool never fails because of it, every later
\* event of the invocation is still passed to the logger, and the
\* invocation returns; with no logger installed log_tool_event does
\* nothing.
C8_LoggerFailureSwallowed ==
    /\ tool_exc # Some("logger")
    /\ RaisingLoggerInstalled =>
          /\ toolpc # "raised"
          /\ toolpc # "idle" =>
                /\ Len(tool_events) >= Len(emitted)
                /\ LastN(tool_events, Len(emitted)) = emitted
    /\ TOOL_LOGGER = None => tool_events = <<>>

\* a second invocation under a raising logger has returned, the logger
\* having been called with all six events of the two invocations
C8_Witness ==
    /\ RaisingLoggerInstalled
    /\ toolpc = "returned"
    /\ nsearch = 2
    /\ Len(tool_events) = 6

\* an invocation with no logger installed has returned
C8_WitnessNoLogger ==
    /\ TOOL_LOGGER = None
    /\ toolpc = "returned"
    /\ Len(emitted) = 3


(***************************************************************************)
(* redact_for_logs on its own: the input is any of a family of strings     *)
(* whose lengths lie around the two thresholds of the function.            *)
(***************************************************************************)

MaxPad == 3

\* the character c repeated n times
RECURSIVE Rep(_, _)
Rep(c, n) ==
    IF n = 0 THEN ""
    ELSE IF n % 2 = 1 THEN c \o Rep(c, n - 1)
    ELSE LET h == Rep(c, n \div 2) IN h \o h

RedactLengths ==
    (0..MaxPad)
    \cup {RedactKeep + d : d \in (0 - MaxPad)..MaxPad}
    \cup {RedactLimit + d : d \in (0 - MaxPad)..MaxPad}

RedactTails == {"", "key", "tok en", "TOKEN", "Api_Key", "my secret", "PassWord"}

RedactInputs ==
    {Rep(c, n) \o t : c \in {"a", "Z", " "}, n \in RedactLengths, t \in RedactTails}

RedactInit ==
    /\ InitTool
    /\ InitHandler
    /\ value \in RedactInputs
    /\ redacted = None
    /\ review_text = ""
    /\ parsed = None
    /\ runner_result = NoResult
    /\ extracted = None

\* the call redact_for_logs(value)
Redact ==
    /\ redacted = None
    /\ redacted' = Some(redact_for_logs(value))
    /\ UNCHANGED <<TOOL_LOGGER, tool_events, nsearch, toolVars, handlerVars,
                   value, review_text, parsed, runner_result, extracted>>

RedactNext == Redact

SpecRedact == RedactInit /\ [][RedactNext]_vars

\* C9, as stated: a string longer than 300 with no sensitive substring is
\* returned with length at most 124 and ending with the truncation marker;
\* one of length at most 300 is returned unchanged.
C9_AsStated ==
    (redacted # None /\ ~IsSensitive(value)) =>
        IF Len(value) > 300
        THEN Len(redacted[1]) <= 124 /\ EndsWith(redacted[1], TruncationMarker)
        ELSE redacted[1] = value

\* C9, amended: a string longer than 300 with no sensitive substring is
\* returned as its first 120 characters followed by the 13-character
\* truncation marker, so with length exactly 133; one of length at most 300
\* is returned unchanged.
C9_Truncation ==
    (redacted # None /\ ~IsSensitive(value)) =>
        IF Len(value) > 300
        THEN /\ Len(redacted[1]) = 133
             /\ EndsWith(redacted[1], TruncationMarker)
             /\ SubSeq(redacted[1], 1, 120) = SubSeq(value, 1, 120)
        ELSE redacted[1] = value

\* a string of 301 characters with no sensitive substring has been redacted
C9_Witness ==
    /\ redacted # None
    /\ Len(value) = 301
    /\ ~IsSensitive(value)
    /\ Len(redacted[1]) = 133

\* a string of exactly 300 characters came back unchanged
C9_WitnessUnchanged ==
    /\ redacted # None
    /\ Len(value) = 300
    /\ redacted[1] = value


(***************************************************************************)
(* parse_reviewer_output.                                                  *)
(***************************************************************************)

BoldDelta == "**Delta List**"
PlainDelta == "Delta List"
NumberedDelta == "1. **Delta List**"
BoldItinerary == "**Validated Itinerary**"
NumberedItinerary == "2. **Validated Itinerary**"

\* lines 365-387: (delta_list, validated_itinerary)
parse_reviewer_output(text) ==
    IF Contains(text, BoldDelta) \/ Contains(text, PlainDelta)
    THEN LET parts == Split(text, BoldItinerary)
         IN  IF Len(parts) > 1
             THEN [delta_list |-> Some(Strip(Remove(Remove(parts[1], BoldDelta), PlainDelta))),
                   validated_itinerary |-> Strip(parts[2])]
             ELSE LET parts2 == Split(text, NumberedItinerary)
                  IN  IF Len(parts2) > 1
                      THEN [delta_list |->
                                Some(Strip(Remove(Remove(parts2[1], NumberedDelta), BoldDelta))),
                            validated_itinerary |-> Strip(parts2[2])]
                      ELSE [delta_list |-> None, validated_itinerary |-> text]
    ELSE [delta_list |-> None, validated_itinerary |-> text]

(***************************************************************************)
(* parse_reviewer_output on its own: the input is a reviewer text put      *)
(* together from an optional preamble, a delta-list heading and body, and  *)
(* an itinerary heading and body, each in the variants reviewers produce.  *)
(***************************************************************************)

Preambles == {"", "Here is my review.\n"}
DeltaHeadings == {"", "**Delta List**", "1. **Delta List**", "Delta List:", "### Delta List"}
DeltaBodies == {"\n- Louvre: closed Tue -> moved to Wed\n", "\n  No changes.\n\n"}
ItineraryHeadings ==
    {"", "**Validated Itinerary**", "2. **Validated Itinerary**", "## Validated Itinerary"}
ItineraryBodies ==
    {"\nDay 1: Louvre\n", "\nDay 1: Orsay\nEnd of the **Validated Itinerary**.\n"}

ParseInputs ==
    {p \o dh \o db \o ih \o ib :
        p \in Preambles, dh \in DeltaHeadings, db \in DeltaBodies,
        ih \in ItineraryHeadings, ib \in ItineraryBodies}

ParseInit ==
    /\ InitTool
    /\ InitHandler
    /\ value = ""
    /\ redacted = None
    /\ review_text \in ParseInputs
    /\ parsed = None
    /\ runner_result = NoResult
    /\ extracted = None

\* the call parse_reviewer_output(review_text)
Parse ==
    /\ parsed = None
    /\ parsed' = Some(parse_reviewer_output(review_text))
    /\ UNCHANGED <<TOOL_LOGGER, tool_events, nsearch, toolVars, handlerVars,
                   value, redacted, review_text, runner_result, extracted>>

ParseNext == Parse

SpecParse == ParseInit /\ [][ParseNext]_vars


(***************************************************************************)
(* Properties of parse_reviewer_output.                                    *)
(***************************************************************************)

\* where the itinerary heading of a text starts and ends: the first bold
\* heading, together with the "2. " in front of it in the numbered variant
HeadingStart(text) ==
    LET i == Find(text, BoldItinerary)
    IN  IF i > 3 /\ SubSeq(text, i - 3, i - 1) = "2. " THEN i - 3 ELSE i
HeadingEnd(text) == Find(text, BoldItinerary) + Len(BoldItinerary) - 1

PartBefore(text) == Take(text, HeadingStart(text) - 1)
PartAfter(text) == Drop(text, HeadingEnd(text))

\* the delta-list heading labels, longest first
StripLabels(s) == Remove(Remove(Remove(s, NumberedDelta), BoldDelta), PlainDelta)

HasBothMarkers(text) == Contains(text, PlainDelta) /\ Contains(text, BoldItinerary)

\* C10: for a reviewer text with a "Delta List" marker and a "Validated
\* Itinerary" heading (bold, or numbered "2. **Validated Itinerary**"),
\* parse_reviewer_output returns as delta-list the text before the heading
\* with the heading labels stripped and trimmed, and as itinerary the text
\* after the heading, trimmed.
C10_SplitAtHeading ==
    (parsed # None /\ HasBothMarkers(review_text)) =>
        /\ parsed[1].delta_list = Some(Strip(StripLabels(PartBefore(review_text))))
        /\ parsed[1].validated_itinerary = Strip(PartAfter(review_text))

\* The same statement restricted to texts in the bold variant whose
\* itinerary heading occurs once: there the code does what C10 says.
ParseBoldVariantSplits ==
    (/\ parsed # None
     /\ HasBothMarkers(review_text)
     /\ ~Contains(review_text, NumberedItinerary)
     /\ ~Contains(review_text, NumberedDelta)
     /\ Len(Split(review_text, BoldItinerary)) = 2) =>
        /\ parsed[1].delta_list = Some(Strip(StripLabels(PartBefore(review_text))))
        /\ parsed[1].validated_itinerary = Strip(PartAfter(review_text))

\* The numbered branch of the parser (lines 382-385) is never taken: any
\* text that "2. **Validated Itinerary**" splits is split by the bold
\* heading first, so the "2." (and a "1." before the delta heading) stays
\* in the delta-list.
ParseNumberedBranchDead ==
    (parsed # None /\ Contains(review_text, NumberedItinerary)
                   /\ Contains(review_text, PlainDelta)) =>
        EndsWith(parsed[1].delta_list[1], "2.")


(***************************************************************************)
(* Orchestration helpers.                                                  *)
(***************************************************************************)

\* A Runner result: final_output and text are None when the attribute is
\* missing or None (getattr(..., None)); str is str(runner_result).
Result(fo, tx, st) == [final_output |-> fo, text |-> tx, str |-> st]

\* Python truthiness of an Optional[str]
Truthy(opt) == opt # None /\ opt[1] # ""

\* a slip that tries the attributes in the other order
extract_text_textfirst(r) ==
    IF Truthy(r.text) THEN r.text[1]
    ELSE IF Truthy(r.final_output) THEN r.final_output[1]
    ELSE r.str

\* lines 242-251
extract_text(result_obj) ==
    IF Truthy(result_obj.final_output) THEN result_obj.final_output[1]
    ELSE IF Truthy(result_obj.text) THEN result_obj.text[1]
    ELSE result_obj.str

\* lines 254-263: what run_planner / run_reviewer return when Runner.run
\* returns result
run_planner(result) == extract_text(result)
run_reviewer(result) == extract_text(result)

(***************************************************************************)
(* The request handler (lines 441-542) and the session.                    *)
(***************************************************************************)

MaxTurns == 2

UserInputs == {"3-day Paris trip for art lovers with $800 budget"}

PlannerResults ==
    {Result(Some("Day 1: Louvre"), None, "RunResult"),
     Result(None, Some("Day 1: Orsay"), "RunResult"),
     Result(Some(""), None, "RunResult")}

ReviewerResults ==
    {Result(Some("Looks great, no changes needed."), None, "RunResult"),
     Result(Some("**Delta List**\n- Louvre: closed Tue\n**Validated Itinerary**\nDay 1: Orsay"),
            None, "RunResult"),
     Result(None,
            Some("1. **Delta List**\n- none\n2. **Validated Itinerary**\nDay 1: Louvre"),
            "RunResult")}

\* messages of the exceptions Runner.run and the rendering calls raise
Exceptions == {"Connection error."}

\* what the reviewer's run does with the tool in a request
ReviewerQueries == {"Louvre opening hours"}
ReviewerKeys == {None, Some("tvly-k")}
ReviewerOutcomes ==
    {[kind |-> "results", items |-> <<>>, msg |-> ""],
     [kind |-> "raises", items |-> <<>>, msg |-> "timed out"]}

UserMsg(content) == [role |-> "user", content |-> content]
AssistantMsg(content, delta) ==
    [role |-> "assistant", content |-> content, delta_list |-> delta]
ErrorMsg(content) == [role |-> "assistant", content |-> content]

PipelineTrace == Some([trace |-> "Planner Agent -> Reviewer Agent"])
RuntimeErrorTrace == Some([trace |-> "Runtime error."])

\* a slip that leaves the exception out of the message
ErrText_generic(e) == "(!) Error while processing your request."

\* line 535; "(!)" stands for the warning sign and "###" for the code fence
ErrText(e) == "(!) Error while processing your request:\n\n###\n" \o e \o "\n###"

\* a slip that appends the message without its metadata entry
OnError_nometa(h, e) ==
    [messages |-> Append(h.messages, ErrorMsg(ErrText(e))), meta |-> h.meta]

\* lines 532-538: the except clause, on the history h = [messages, meta].
\* It catches what derives from Exception; its own two rendering calls
\* (lines 534 and 536) are taken to return.
OnError(h, e) ==
    [messages |-> Append(h.messages, ErrorMsg(ErrText(e))),
     meta |-> Append(h.meta, RuntimeErrorTrace)]

\* lines 500, 523-529: parse the review and save it to the history
OnSuccess(h, text) ==
    LET r == parse_reviewer_output(text)
    IN  [messages |-> Append(h.messages, AssistantMsg(r.validated_itinerary, r.delta_list)),
         meta |-> Append(h.meta, PipelineTrace)]

\* a slip that removes the logger at the end of the try block only
Finally_missing == UNCHANGED TOOL_LOGGER

\* lines 540-542
Finally == set_tool_logger(None)

History == [messages |-> messages, meta |-> meta]

\* lines 441-485: the user message is saved, the logger installed and the
\* Planner started
Submit(user_input, kind) ==
    /\ pc = "idle"
    /\ req < MaxTurns
    /\ user_input # ""
    /\ messages' = Append(messages, UserMsg(user_input))
    /\ meta' = Append(meta, None)
    /\ tool_events' = <<>>
    /\ set_tool_logger(Some(Logger(req + 1, kind)))
    /\ req' = req + 1
    /\ calls' = <<[agent |-> "planner", input |-> user_input]>>
    /\ plan_text' = None
    /\ fault' = None
    /\ nsearch' = 0
    /\ pc' = "planner"
    /\ UNCHANGED <<toolVars, pureVars>>

\* a slip that hands the Reviewer the user's text instead of the plan
PlannerReturns_userinput(result) ==
    /\ pc = "planner"
    /\ plan_text' = Some(run_planner(result))
    /\ calls' = Append(calls, [agent |-> "reviewer", input |-> calls[1].input])
    /\ pc' = "reviewer"
    /\ UNCHANGED <<TOOL_LOGGER, tool_events, nsearch, toolVars, pureVars,
                   req, messages, meta, fault>>

\* lines 485-491: run_planner returns and run_reviewer is started on its text
PlannerReturns(result) ==
    /\ pc = "planner"
    /\ plan_text' = Some(run_planner(result))
    /\ calls' = Append(calls, [agent |-> "reviewer", input |-> run_planner(result)])
    /\ pc' = "reviewer"
    /\ UNCHANGED <<TOOL_LOGGER, tool_events, nsearch, toolVars, pureVars,
                   req, messages, meta, fault>>

\* line 485 raises: except clause, then finally
PlannerRaises(e) ==
    /\ pc = "planner"
    /\ LET h == OnError(History, e)
       IN  messages' = h.messages /\ meta' = h.meta
    /\ Finally
    /\ fault' = Some([at |-> "planner", msg |-> e])
    /\ pc' = "idle"
    /\ UNCHANGED <<tool_events, nsearch, toolVars, pureVars, req, calls, plan_text>>

\* the Reviewer's run uses its tool
ReviewerSearches ==
    /\ pc = "reviewer"
    /\ ToolStep(ReviewerQueries, ReviewerKeys, ReviewerOutcomes)

\* line 491 raises: except clause, then finally
ReviewerRaises(e) ==
    /\ pc = "reviewer"
    /\ toolpc = "idle"
    /\ LET h == OnError(History, e)
       IN  messages' = h.messages /\ meta' = h.meta
    /\ Finally
    /\ fault' = Some([at |-> "reviewer", msg |-> e])
    /\ pc' = "idle"
    /\ UNCHANGED <<tool_events, nsearch, toolVars, pureVars, req, calls, plan_text>>

\* lines 491-530: run_reviewer returns; the result is parsed, rendered and
\* saved.  A rendering call may raise before the result is saved (lines
\* 495-521) or after it (line 530); either way the except clause runs, and
\* finally after it.
ReviewerReturns(result, render, e) ==
    /\ pc = "reviewer"
    /\ toolpc = "idle"
    /\ LET text == run_reviewer(result)
           h == CASE render = "ok" -> OnSuccess(History, text)
                  [] render = "raises_before_save" -> OnError(History, e)
                  [] render = "raises_after_save" ->
                        OnError(OnSuccess(History, text), e)
       IN  messages' = h.messages /\ meta' = h.meta
    /\ Finally
    /\ fault' = IF render = "ok" THEN None
                ELSE Some([at |-> render, msg |-> e])
    /\ pc' = "idle"
    /\ UNCHANGED <<tool_events, nsearch, toolVars, pureVars, req, calls, plan_text>>

RenderOutcomes == {"ok", "raises_before_save", "raises_after_save"}

\* lines 328-330 and 390-392: Reset Conversation clears the session state and
\* the rerun creates empty histories
Reset ==
    /\ pc = "idle"
    /\ messages' = <<>>
    /\ meta' = <<>>
    /\ calls' = <<>>
    /\ plan_text' = None
    /\ fault' = None
    /\ UNCHANGED <<TOOL_LOGGER, tool_events, nsearch, toolVars, pureVars, pc, req>>

Init == InitTool /\ InitHandler /\ InitPure

Next ==
    \/ \E u \in UserInputs, k \in LoggerKinds : Submit(u, k)
    \/ \E r \in PlannerResults : PlannerReturns(r)
    \/ \E e \in Exceptions : PlannerRaises(e)
    \/ ReviewerSearches
    \/ \E e \in Exceptions : ReviewerRaises(e)
    \/ \E r \in ReviewerResults, o \in RenderOutcomes, e \in Exceptions :
          ReviewerReturns(r, o, e)
    \/ Reset

Spec == Init /\ [][Next]_vars


(***************************************************************************)
(* Properties of the request handler.                                      *)
(***************************************************************************)

Last(seq) == seq[Len(seq)]

TurnOver == pc = "idle" /\ messages # <<>>
AgentFailed == fault # None /\ fault[1].at \in {"planner", "reviewer"}

\* C3: the logger slot is installed at the start of a request and is None
\* again on every exit path of the handler: whenever no request is in
\* flight the slot is None, and while one is in flight the slot holds the
\* logger that this very request created, so no request ever calls a logger
\* of an earlier one.
C3_LoggerUninstalled ==
    /\ pc = "idle" => TOOL_LOGGER = None
    /\ pc # "idle" => (TOOL_LOGGER # None /\ TOOL_LOGGER[1].req = req)

\* a second request has ended in an exception from rendering, after the
\* Reviewer used its tool
C3_Witness ==
    /\ pc = "idle"
    /\ req = 2
    /\ nsearch > 0
    /\ fault # None
    /\ fault[1].at = "raises_before_save"
    /\ TOOL_LOGGER = None

\* C4: in every reachable session state, after any sequence of successful
\* and failing turns and resets, meta is as long as messages.
C4_MetaMatchesMessages == Len(meta) = Len(messages)

\* two turns are over, the second one failed, and both histories hold four
\* entries
C4_Witness ==
    /\ pc = "idle"
    /\ req = 2
    /\ AgentFailed
    /\ Len(messages) = 4
    /\ Len(meta) = 4

C6_PlannerThenReviewer ==
    /\ Len(calls) <= 2
    /\ Len(calls) >= 1 => calls[1].agent = "planner"
    /\ pc = "planner" => (Len(calls) = 1 /\ plan_text = None)
    /\ pc = "reviewer" => Len(calls) = 2
    /\ Len(calls) = 2 =>
          /\ calls[2].agent = "reviewer"
          /\ plan_text # None
          /\ calls[2].input = plan_text[1]
    /\ (fault # None /\ fault[1].at = "planner") => Len(calls) = 1
    /\ (TurnOver /\ fault = None) => Len(calls) = 2

\* a turn has succeeded: the Reviewer ran on the Planner's text and its
\* review was saved with a delta list
C6_Witness ==
    /\ TurnOver
    /\ fault = None
    /\ Len(calls) = 2
    /\ calls[2].input = "Day 1: Louvre"
    /\ Last(messages).delta_list # None
    /\ Last(meta) = PipelineTrace


(***************************************************************************)
(* extract_text on its own: the input is a result object of any of the     *)
(* shapes a Runner may return, each attribute missing or None, empty,      *)
(* blank or filled.                                                        *)
(***************************************************************************)

FinalOutputs == {None, Some(""), Some(" "), Some("Day 1: Louvre"), Some("Day 2: Orsay")}
Texts == {None, Some(""), Some("Day 1: Rodin"), Some("plan text")}
Strs == {"RunResult", "<Result object>", ""}

ExtractInputs == {Result(fo, tx, st) : fo \in FinalOutputs, tx \in Texts, st \in Strs}

ExtractInit ==
    /\ InitTool
    /\ InitHandler
    /\ value = ""
    /\ redacted = None
    /\ review_text = ""
    /\ parsed = None
    /\ runner_result \in ExtractInputs
    /\ extracted = None

\* the call extract_text(runner_result)
Extract ==
    /\ extracted = None
    /\ extracted' = Some(extract_text(runner_result))
    /\ UNCHANGED <<TOOL_LOGGER, tool_events, nsearch, toolVars, handlerVars,
                   value, redacted, review_text, parsed, runner_result>>

ExtractNext == Extract

SpecExtract == ExtractInit /\ [][ExtractNext]_vars

ExtractedValues(r) ==
    {r.str} \cup {o[1] : o \in {r.final_output, r.text} \ {None}}

\* C11, as stated: extract_text returns the final-output field whenever the
\* result exposes one, else the text field when the result exposes one, else
\* the stringified result; and it always returns.
C11_AsStated ==
    extracted # None =>
        IF runner_result.final_output # None
        THEN extracted[1] = runner_result.final_output[1]
        ELSE IF runner_result.text # None
        THEN extracted[1] = runner_result.text[1]
        ELSE extracted[1] = runner_result.str

\* C11, amended: extract_text returns the first non-empty of the
\* final-output field, the text field and the stringified result (the last
\* even when empty): whenever the final-output field is a non-empty string
\* the returned text is that field's value, while a missing, None or empty
\* final-output field is passed over; and for every shape of result the call
\* returns one of the result's own three strings.
C11_FirstNonEmpty ==
    extracted # None =>
        /\ extracted[1] \in ExtractedValues(runner_result)
        /\ IF runner_result.final_output # None /\ runner_result.final_output[1] # ""
           THEN extracted[1] = runner_result.final_output[1]
           ELSE IF runner_result.text # None /\ runner_result.text[1] # ""
           THEN extracted[1] = runner_result.text[1]
           ELSE extracted[1] = runner_result.str

\* a result whose final-output field is the empty string has been
\* extracted: the text field's value came back
C11_Witness ==
    /\ extracted = Some("Day 1: Rodin")
    /\ runner_result.final_output = Some("")
    /\ runner_result.text = Some("Day 1: Rodin")


(***************************************************************************)
(* The shape of the history.                                               *)
(***************************************************************************)

IsUserEntry(i) ==
    /\ messages[i].role = "user"
    /\ meta[i] = None

\* an assistant entry is a validated itinerary with the pipeline trace, or
\* an error message with the runtime-error trace
IsAssistantEntry(i) ==
    /\ messages[i].role = "assistant"
    /\ \/ DOMAIN messages[i] = {"role", "content", "delta_list"} /\ meta[i] = PipelineTrace
       \/ /\ DOMAIN messages[i] = {"role", "content"}
          /\ StartsWith(messages[i].content, "(!) Error while processing your request:")
          /\ meta[i] = RuntimeErrorTrace

\* C12: after any sequence of turns and resets the history alternates user,
\* assistant, user, assistant, starting with a user message: every handled
\* turn has appended exactly one user message, whose metadata entry is None,
\* followed by exactly one assistant message, which is either the validated
\* itinerary with trace "Planner Agent -> Reviewer Agent" or the error
\* message with trace "Runtime error.", never both; while a turn is running
\* its user message is the last entry.
C12_HistoryAlternates ==
    /\ Len(meta) = Len(messages)
    /\ \A i \in DOMAIN messages :
          IF i % 2 = 1 THEN IsUserEntry(i) ELSE IsAssistantEntry(i)
    /\ Len(messages) % 2 = (IF pc = "idle" THEN 0 ELSE 1)

\* Where the code does what C12 says: a turn that ends without a rendering
\* call raising after the save (line 530) appends exactly one assistant
\* entry, and every entry ever appended is a user entry or one of the two
\* kinds of assistant entry.
TurnAppendsOneReply ==
    [][(pc # "idle" /\ pc' = "idle"
          /\ (fault' = None \/ fault'[1].at # "raises_after_save"))
        => (Len(messages') = Len(messages) + 1
              /\ messages'[Len(messages')].role = "assistant")]_vars

EntriesWellFormed ==
    \A i \in DOMAIN messages : IsUserEntry(i) \/ IsAssistantEntry(i)

\* The turn C12 leaves out: the rendering call after the save raised, and
\* the turn's user message is followed by two assistant messages, the
\* validated itinerary and the error message.
TwoRepliesReached ==
    /\ pc = "idle"
    /\ Len(messages) = 3
    /\ messages[1].role = "user"
    /\ messages[2].role = "assistant" /\ meta[2] = PipelineTrace
    /\ messages[3].role = "assistant" /\ meta[3] = RuntimeErrorTrace

====
